---- MODULE Spec2Model ----
(***************************************************************************)
(* Model of ResNet-Horovod/imagenet-resnet-horovod.py: the command-line    *)
(* driver (__main__), the run configuration (get_config), the learning-    *)
(* rate schedule it installs in the training loop, the loss scaling of     *)
(* Model.build_graph and the cross-worker error aggregation of             *)
(* HorovodClassificationError.                                             *)
(*                                                                         *)
(* Real numbers (learning rates, losses, error rates) are exact rationals  *)
(* <<numerator, denominator>> in lowest terms; floating-point rounding is  *)
(* not modelled.                                                           *)
(***************************************************************************)
EXTENDS Integers, Sequences, FiniteSets, TLC

----------------------------------------------------------------------------
(* Bounds of the model                                                     *)

\* per-worker batch sizes of the driver model: BatchStep * (1..MaxBatchMult)
BatchStep == 16
MaxBatchMult == 6
\* worker counts (hvd.size()) of the driver model: 1..MaxWorkers
MaxWorkers == 8
\* per-worker batch sizes of the training-loop model
TrainBatchStep == 192
MaxTrainBatchMult == 2
MaxTrainWorkers == 2
\* a per-worker batch size larger than twice the training set
HugeBatch == 2562335
\* the worker model: worker counts 1..MaxDistWorkers, one per-worker batch
\* size, epochs run, per-step losses 1..MaxLoss, and validation images per
\* worker 1..MaxLocalTotal
MaxDistWorkers == 2
DistBatch == 640000
MaxDistEpochs == 1
MaxLoss == 2
MaxLocalTotal == 2

----------------------------------------------------------------------------
(* Exact rational arithmetic                                               *)

\* The arithmetic is written as functions of one tuple: TLC evaluates the
\* argument of a function application once.

Abs(x) == IF x < 0 THEN -x ELSE x

gcd[p \in Nat \X Nat] == IF p[2] = 0 THEN p[1] ELSE gcd[<<p[2], p[1] % p[2]>>]

lowest[p \in Int \X Nat] ==
    LET g == gcd[<<Abs(p[1]), p[2]>>] IN <<p[1] \div g, p[2] \div g>>

\* the rational n/d (d > 0) in lowest terms
Rat(n, d) == lowest[<<n, d>>]

Rationals == Int \X Nat

rmul[p \in Rationals \X Rationals] ==
    Rat(p[1][1] * p[2][1], p[1][2] * p[2][2])
radd[p \in Rationals \X Rationals] ==
    Rat(p[1][1] * p[2][2] + p[2][1] * p[1][2], p[1][2] * p[2][2])
rsub[p \in Rationals \X Rationals] ==
    Rat(p[1][1] * p[2][2] - p[2][1] * p[1][2], p[1][2] * p[2][2])
rdiv[p \in Rationals \X Rationals] ==
    Rat(p[1][1] * p[2][2], p[1][2] * p[2][1])
rlt[p \in Rationals \X Rationals] == p[1][1] * p[2][2] < p[2][1] * p[1][2]
rle[p \in Rationals \X Rationals] == p[1][1] * p[2][2] <= p[2][1] * p[1][2]

RMul(x, y) == rmul[<<x, y>>]
RAdd(x, y) == radd[<<x, y>>]
RSub(x, y) == rsub[<<x, y>>]
RDiv(x, y) == rdiv[<<x, y>>]
RLt(x, y) == rlt[<<x, y>>]
RLe(x, y) == rle[<<x, y>>]

\* an unset command-line option
None == "None"
\* a Python name not yet bound to an object; a bound one is the set {object}
Nothing == {}
The(s) == CHOOSE x \in s : TRUE

----------------------------------------------------------------------------
(* get_config                                                              *)

\* number of training images of ILSVRC12
DatasetSize == 1281167
FakeStepsPerEpoch == 50
FakeMaxEpoch == 35
RealMaxEpoch == 90

\* int(np.round(n / d)): "/" is the true division of Python 3, and np.round
\* rounds half to even
RoundDiv(n, d) ==
    LET q == n \div d
        r == n % d
    IN  IF 2 * r < d THEN q
        ELSE IF 2 * r > d THEN q + 1
        ELSE IF q % 2 = 0 THEN q ELSE q + 1

\* steps_per_epoch of get_config
StepsPerEpoch(total_batch, fake) ==
    IF fake THEN FakeStepsPerEpoch ELSE RoundDiv(DatasetSize, total_batch)

\* BASE_LR = 0.1 * (total_batch // 256)
BaseLR(total_batch) == Rat(total_batch \div 256, 10)

\* a callback of the list handed to TrainConfig
Callback(kind, schedule, interp, step_based, infs, chief_only) ==
    [kind |-> kind, schedule |-> schedule, interp |-> interp,
     step_based |-> step_based, infs |-> infs, chief_only |-> chief_only]

PlainCallback(kind) == Callback(kind, <<>>, None, FALSE, <<>>, TRUE)

\* a step decay whose second point repeats the first factor
DecayScheduleRepeated(base_lr) ==
    << <<30, RMul(base_lr, Rat(1, 10))>>,
       <<60, RMul(base_lr, Rat(1, 10))>>,
       <<80, RMul(base_lr, Rat(1, 1000))>> >>

\* the epoch-based step decay of the learning rate
DecaySchedule(base_lr) ==
    << <<30, RMul(base_lr, Rat(1, 10))>>,
       <<60, RMul(base_lr, Rat(1, 100))>>,
       <<80, RMul(base_lr, Rat(1, 1000))>> >>

\* a warmup that lasts 50 epochs instead of 5
WarmupScheduleLong(base_lr, steps_per_epoch) ==
    << <<0, Rat(1, 10)>>, <<50 * steps_per_epoch, base_lr>> >>

\* the step-based linear warmup of the learning rate
WarmupSchedule(base_lr, steps_per_epoch) ==
    << <<0, Rat(1, 10)>>, <<5 * steps_per_epoch, base_lr>> >>

\* if BASE_LR > 0.1
NeedsWarmup(base_lr) == RLt(Rat(1, 10), base_lr)

WarmupCallbacks(base_lr, steps_per_epoch) ==
    IF NeedsWarmup(base_lr)
    THEN << Callback("ScheduledHyperParamSetter",
                     WarmupSchedule(base_lr, steps_per_epoch),
                     "linear", TRUE, <<>>, TRUE) >>
    ELSE << >>

\* a distributed validation that only rank 0 installs
ValidationCallbacksRootOnly(validation, rank) ==
    IF validation /= None /\ rank = 0
    THEN IF validation = "master"
         THEN << Callback("InferenceRunner", <<>>, None, FALSE,
                          << [cls |-> "ClassificationError", name |-> "wrong-top1"],
                             [cls |-> "ClassificationError", name |-> "wrong-top5"] >>,
                          TRUE) >>
         ELSE << Callback("InferenceRunner", <<>>, None, FALSE,
                          << [cls |-> "HorovodClassificationError", name |-> "wrong-top1"],
                             [cls |-> "HorovodClassificationError", name |-> "wrong-top5"] >>,
                          FALSE) >>
    ELSE << >>

\* the validation runner a rank installs
ValidationCallbacks(validation, rank) ==
    IF validation /= None
    THEN IF validation = "master" /\ rank = 0
         THEN << Callback("InferenceRunner", <<>>, None, FALSE,
                          << [cls |-> "ClassificationError", name |-> "wrong-top1"],
                             [cls |-> "ClassificationError", name |-> "wrong-top5"] >>,
                          TRUE) >>
         ELSE IF validation = "distributed"
         THEN << Callback("InferenceRunner", <<>>, None, FALSE,
                          << [cls |-> "HorovodClassificationError", name |-> "wrong-top1"],
                             [cls |-> "HorovodClassificationError", name |-> "wrong-top5"] >>,
                          FALSE) >>
         ELSE << >>
    ELSE << >>

get_config(batch, size, rank, fake, validation) ==
    LET total_batch == batch * size
        steps_per_epoch == StepsPerEpoch(total_batch, fake)
        BASE_LR == BaseLR(total_batch)
    IN  [total_batch |-> total_batch,
         base_lr |-> BASE_LR,
         callbacks |->
             << PlainCallback("ModelSaver"),
                PlainCallback("EstimatedTimeLeft"),
                Callback("ScheduledHyperParamSetter", DecaySchedule(BASE_LR),
                         None, FALSE, <<>>, TRUE) >>
             \o WarmupCallbacks(BASE_LR, steps_per_epoch)
             \o ValidationCallbacks(validation, rank),
         steps_per_epoch |-> steps_per_epoch,
         max_epoch |-> IF fake THEN FakeMaxEpoch ELSE RealMaxEpoch]

----------------------------------------------------------------------------
(* State                                                                   *)

VARIABLES
    args,          \* the parsed command line
    hvd,           \* the collective layer: [size, rank, inited]
    pc,            \* position of the driver in __main__
    logger_dir,    \* TRUE once logger.set_logger_dir has run
    ds,            \* TRUE once a validation dataflow has been built by __main__
    model,         \* Nothing or the Model object: {[loss_scale]}
    config,        \* Nothing or the TrainConfig returned by get_config
    trainer,       \* Nothing or the HorovodTrainer: {[average]}
    failure,       \* None or the exception that ended the process
    epoch_num,     \* training loop: number of the current epoch (0 before the first)
    local_step,    \* training loop: steps run in the current epoch
    global_step,   \* training loop: steps run in all
    learning_rate, \* the 'learning_rate' hyper-parameter, Unset until a setter assigns it
    wconfig,       \* workers: the TrainConfig each rank's get_config returned
    wpc,           \* workers: position of each rank in its training loop
    wepoch,        \* workers: number of each rank's current epoch
    wstep,         \* workers: steps each rank has run in its current epoch
    winf,          \* workers: index of the inferencer each rank is finishing
    loss,          \* workers: the cost ImageNetModel.build_graph returned in the current step
    cost,          \* workers: the cost Model.build_graph returned in the current step
    pending,       \* collective layer: the tensors handed to each allreduce, by rank
    grad_sum,      \* workers: the result of the training allreduce each rank got in the current step
    err_stat,      \* workers: [total, count] of each inferencer of each rank
    summary        \* workers: the error rate each inferencer of each rank reported

mainVars == <<args, hvd, pc, logger_dir, ds, model, config, trainer, failure>>
loopVars == <<epoch_num, local_step, global_step, learning_rate>>
distVars == <<wconfig, wpc, wepoch, wstep, winf, loss, cost, pending, grad_sum,
              err_stat, summary>>
vars == <<mainVars, loopVars, distVars>>

\* no worker processes are modelled
NoWorkers ==
    /\ wconfig = << >>
    /\ wpc = << >>
    /\ wepoch = << >>
    /\ wstep = << >>
    /\ winf = << >>
    /\ loss = << >>
    /\ cost = << >>
    /\ pending = << >>
    /\ grad_sum = << >>
    /\ err_stat = << >>
    /\ summary = << >>

\* the value the model's optimizer gave the hyper-parameter (not set by this file)
Unset == <<0, 0>>

----------------------------------------------------------------------------
(* __main__                                                                *)

Batches == {BatchStep * i : i \in 1..MaxBatchMult}

Init ==
    /\ args \in [eval : BOOLEAN, load : {None, "ckpt"}, fake : BOOLEAN,
                 validation : {None, "master", "distributed"},
                 batch : Batches]
    /\ \E size \in 1..MaxWorkers : \E rank \in 0..(size - 1) :
           hvd = [size |-> size, rank |-> rank, inited |-> FALSE]
    /\ pc = "main"
    /\ logger_dir = FALSE
    /\ ds = FALSE
    /\ model = Nothing
    /\ config = Nothing
    /\ trainer = Nothing
    /\ failure = None
    /\ epoch_num = 0
    /\ local_step = 0
    /\ global_step = 0
    /\ learning_rate = Unset
    /\ NoWorkers

\* ds = get_val_dataflow(args.data, batch, fbresnet_augmentor(False))
EvalDataflow ==
    /\ pc = "main"
    /\ args.eval
    /\ ds' = TRUE
    /\ pc' = "eval_model"
    /\ UNCHANGED <<loopVars, distVars, args, hvd, logger_dir, model, config, trainer, failure>>

\* model = Model(args.depth)
EvalModel ==
    /\ pc = "eval_model"
    /\ model' = {[loss_scale |-> Rat(1, 1)]}
    /\ pc' = "eval_run"
    /\ UNCHANGED <<loopVars, distVars, args, hvd, logger_dir, ds, config, trainer, failure>>

\* eval_on_ILSVRC12(model, get_model_loader(args.load), ds)
EvalRun ==
    /\ pc = "eval_run"
    /\ IF args.load = None
       THEN /\ failure' = "get_model_loader"
            /\ pc' = "failed"
       ELSE /\ failure' = failure
            /\ pc' = "evaluated"
    /\ UNCHANGED <<loopVars, distVars, args, hvd, logger_dir, ds, model, config, trainer>>

\* a driver without the assertion
TrainNoAssert ==
    /\ pc = "main"
    /\ ~args.eval
    /\ pc' = "hvd_init"
    /\ UNCHANGED <<loopVars, distVars, args, hvd, logger_dir, ds, model, config, trainer, failure>>

\* assert args.load is None
TrainAssert ==
    /\ pc = "main"
    /\ ~args.eval
    /\ IF args.load /= None
       THEN /\ failure' = "AssertionError"
            /\ pc' = "failed"
       ELSE /\ failure' = failure
            /\ pc' = "hvd_init"
    /\ UNCHANGED <<loopVars, distVars, args, hvd, logger_dir, ds, model, config, trainer>>

\* hvd.init()
HvdInit ==
    /\ pc = "hvd_init"
    /\ hvd' = [hvd EXCEPT !.inited = TRUE]
    /\ pc' = "logger"
    /\ UNCHANGED <<loopVars, distVars, args, logger_dir, ds, model, config, trainer, failure>>

\* if hvd.rank() == 0: logger.set_logger_dir(args.logdir, 'd')
SetLoggerDir ==
    /\ pc = "logger"
    /\ logger_dir' = (hvd.rank = 0)
    /\ pc' = "model"
    /\ UNCHANGED <<loopVars, distVars, args, hvd, ds, model, config, trainer, failure>>

\* a loss scale that ignores the number of workers
LossScaleOne(size) == Rat(1, 1)

\* loss_scale=1.0 / hvd.size()
LossScale(size) == Rat(1, size)

\* model = Model(args.depth, loss_scale=1.0 / hvd.size())
TrainModel ==
    /\ pc = "model"
    /\ model' = {[loss_scale |-> LossScale(hvd.size)]}
    /\ pc' = "config"
    /\ UNCHANGED <<loopVars, distVars, args, hvd, logger_dir, ds, config, trainer, failure>>

\* config = get_config(model, fake=args.fake)
GetConfig ==
    /\ pc = "config"
    /\ config' = {get_config(args.batch, hvd.size, hvd.rank, args.fake, args.validation)}
    /\ pc' = "launch"
    /\ UNCHANGED <<loopVars, distVars, args, hvd, logger_dir, ds, model, trainer, failure>>

\* trainer = HorovodTrainer(average=False); launch_train_with_config(config, trainer)
Launch ==
    /\ pc = "launch"
    /\ trainer' = {[average |-> FALSE]}
    /\ pc' = "training"
    /\ UNCHANGED <<loopVars, distVars, args, hvd, logger_dir, ds, model, config, failure>>

Next ==
    \/ EvalDataflow
    \/ EvalModel
    \/ EvalRun
    \/ TrainAssert
    \/ HvdInit
    \/ SetLoggerDir
    \/ TrainModel
    \/ GetConfig
    \/ Launch

Spec == Init /\ [][Next]_vars

----------------------------------------------------------------------------
(* The training loop launch_train_with_config runs with the callbacks of   *)
(* get_config: the two ScheduledHyperParamSetter callbacks act on          *)
(* 'learning_rate' before training, after every step (step_based) and      *)
(* after every epoch (epoch based).                                        *)

\* ScheduledHyperParamSetter._get_value_to_set: Unset stands for "no value"
GetValueToSet(cb, refnum) ==
    LET sch == cb.schedule
        exact == {i \in DOMAIN sch : sch[i][1] = refnum}
        before == {i \in DOMAIN sch : sch[i][1] < refnum}
        after == {i \in DOMAIN sch : sch[i][1] > refnum}
    IN  IF exact /= {}
        THEN sch[CHOOSE i \in exact : \A j \in exact : i <= j][2]
        ELSE IF before = {} \/ after = {}
        THEN Unset
        ELSE LET i == CHOOSE k \in before : \A j \in before : j <= k
                 laste == sch[i][1]
                 lastv == sch[i][2]
                 e == sch[i + 1][1]
                 v == sch[i + 1][2]
             IN  IF cb.interp = "linear"
                 THEN RAdd(RMul(Rat(refnum - laste, e - laste), RSub(v, lastv)), lastv)
                 ELSE lastv

\* HyperParamSetter._set_param of one callback
SetParam(cb, lr, epoch, step) ==
    LET v == GetValueToSet(cb, IF cb.step_based THEN step ELSE epoch)
    IN  IF v = Unset THEN lr ELSE v

\* the callbacks of the list, in order, that are hyper-parameter setters
\* triggered in this phase ("before_train", "step" or "epoch")
Triggered(cb, phase) ==
    /\ cb.kind = "ScheduledHyperParamSetter"
    /\ \/ phase = "before_train"
       \/ phase = "step" /\ cb.step_based
       \/ phase = "epoch" /\ ~cb.step_based

RECURSIVE RunSetters(_, _, _, _, _)
RunSetters(cbs, phase, lr, epoch, step) ==
    IF cbs = << >> THEN lr
    ELSE RunSetters(Tail(cbs), phase,
                    IF Triggered(Head(cbs), phase)
                    THEN SetParam(Head(cbs), lr, epoch, step)
                    ELSE lr,
                    epoch, step)

TrainBatches == {TrainBatchStep * i : i \in 1..MaxTrainBatchMult} \cup {HugeBatch}

\* the driver has reached launch_train_with_config; validation is off
TrainInit ==
    /\ args \in [eval : {FALSE}, load : {None}, fake : BOOLEAN,
                 validation : {None}, batch : TrainBatches]
    /\ \E size \in 1..MaxTrainWorkers :
           hvd = [size |-> size, rank |-> 0, inited |-> TRUE]
    /\ pc = "training"
    /\ logger_dir = TRUE
    /\ ds = FALSE
    /\ model = {[loss_scale |-> LossScale(hvd.size)]}
    /\ config = {get_config(args.batch, hvd.size, hvd.rank, args.fake, args.validation)}
    /\ trainer = {[average |-> FALSE]}
    /\ failure = None
    /\ epoch_num = 0
    /\ local_step = 0
    /\ global_step = 0
    /\ learning_rate = Unset
    /\ NoWorkers

\* callbacks.before_train(), then the first epoch starts
BeforeTrain ==
    /\ pc = "training"
    /\ learning_rate' = RunSetters(The(config).callbacks, "before_train",
                                   learning_rate, epoch_num, global_step)
    /\ epoch_num' = 1
    /\ local_step' = 0
    /\ pc' = "loop"
    /\ UNCHANGED <<global_step, distVars, args, hvd, logger_dir, ds, model, config, trainer, failure>>

\* run_step(), then callbacks.trigger_step()
RunStep ==
    /\ pc = "loop"
    /\ local_step < The(config).steps_per_epoch
    /\ global_step' = global_step + 1
    /\ local_step' = local_step + 1
    /\ learning_rate' = RunSetters(The(config).callbacks, "step",
                                   learning_rate, epoch_num, global_step')
    /\ UNCHANGED <<epoch_num, mainVars, distVars>>

\* callbacks.trigger_epoch(), then the next epoch starts or training ends
TriggerEpoch ==
    /\ pc = "loop"
    /\ local_step = The(config).steps_per_epoch
    /\ learning_rate' = RunSetters(The(config).callbacks, "epoch",
                                   learning_rate, epoch_num, global_step)
    /\ IF epoch_num < The(config).max_epoch
       THEN /\ epoch_num' = epoch_num + 1
            /\ local_step' = 0
            /\ pc' = pc
       ELSE /\ pc' = "trained"
            /\ UNCHANGED <<epoch_num, local_step>>
    /\ UNCHANGED <<global_step, distVars, args, hvd, logger_dir, ds, model, config, trainer, failure>>

TrainNext ==
    \/ BeforeTrain
    \/ RunStep
    \/ TriggerEpoch

TrainSpec == TrainInit /\ [][TrainNext]_vars

----------------------------------------------------------------------------
(* The workers: every rank runs the same driver and training loop; the     *)
(* collective layer sums the tensors the ranks hand to an allreduce and    *)
(* returns the result to all of them once every rank has joined it.        *)

Ranks == 0..(hvd.size - 1)
InfNames == {"wrong-top1", "wrong-top5"}

\* x[0] + ... + x[n]
RSum(x, n) ==
    LET sum[i \in -1..n] == IF i < 0 THEN Rat(0, 1) ELSE RAdd(sum[i - 1], x[i])
    IN  sum[n]

\* a collective that returns rank 0's tensor instead of the sum
AllreduceRoot(x, size, average) == x[0]

\* hvd.allreduce(tensor, average=average) of the scalars x[0], ..., x[size-1]
Allreduce(x, size, average) ==
    LET total == RSum(x, size - 1)
    IN  IF average THEN RMul(total, Rat(1, size)) ELSE total

\* Model.build_graph: the cost of ImageNetModel.build_graph, scaled
ScaledCost(c, loss_scale) ==
    IF loss_scale /= Rat(1, 1) THEN RMul(c, loss_scale) ELSE c

\* cnt * 1. / tot
ErrorRate(tot, cnt) == RDiv(cnt, tot)

\* the InferenceRunner callbacks rank r runs: only rank 0 is the chief of a
\* HorovodTrainer, and a chief_only callback runs on the chief alone
Runners(r) ==
    SelectSeq(wconfig[r].callbacks,
              LAMBDA cb : cb.kind = "InferenceRunner" /\ (cb.chief_only => r = 0))

Inferencers(r) == Runners(r)[1].infs

DistInit ==
    /\ args \in [eval : {FALSE}, load : {None}, fake : {FALSE},
                 validation : {None, "master", "distributed"},
                 batch : {DistBatch}]
    /\ \E size \in 1..MaxDistWorkers :
           hvd = [size |-> size, rank |-> 0, inited |-> TRUE]
    /\ pc = "training"
    /\ logger_dir = TRUE
    /\ ds = FALSE
    /\ model = {[loss_scale |-> LossScale(hvd.size)]}
    /\ config = {get_config(args.batch, hvd.size, hvd.rank, args.fake, args.validation)}
    /\ trainer = {[average |-> FALSE]}
    /\ failure = None
    /\ epoch_num = 0
    /\ local_step = 0
    /\ global_step = 0
    /\ learning_rate = Unset
    /\ wconfig = [r \in Ranks |->
                     get_config(args.batch, hvd.size, r, args.fake, args.validation)]
    /\ wpc = [r \in Ranks |-> "loop"]
    /\ wepoch = [r \in Ranks |-> 1]
    /\ wstep = [r \in Ranks |-> 0]
    /\ winf = [r \in Ranks |-> 0]
    /\ loss = [r \in Ranks |-> Rat(0, 1)]
    /\ cost = [r \in Ranks |-> Rat(0, 1)]
    /\ pending = [op \in {"grad"} \cup InfNames |-> [r \in Ranks |-> Nothing]]
    /\ grad_sum = [r \in Ranks |-> Nothing]
    /\ err_stat = [r \in Ranks |-> [n \in InfNames |-> [total |-> 0, count |-> 0]]]
    /\ summary = [r \in Ranks |-> [n \in InfNames |-> Nothing]]

\* run_step of rank r: build_graph computes the cost, and the trainer hands
\* it (its gradient) to the training allreduce
BuildGraph(r) ==
    /\ wpc[r] = "loop"
    /\ wstep[r] < wconfig[r].steps_per_epoch
    /\ \E c \in 1..MaxLoss :
           /\ loss' = [loss EXCEPT ![r] = Rat(c, 1)]
           /\ cost' = [cost EXCEPT ![r] = ScaledCost(Rat(c, 1), The(model).loss_scale)]
    /\ pending' = [pending EXCEPT !["grad"][r] = {cost'[r]}]
    /\ wpc' = [wpc EXCEPT ![r] = "wait_grad"]
    /\ UNCHANGED <<mainVars, loopVars, wconfig, wepoch, wstep, winf, grad_sum,
                   err_stat, summary>>

\* the training allreduce, joined by every rank: HorovodTrainer(average=False)
AllreduceGrad ==
    /\ \A r \in Ranks : pending["grad"][r] /= Nothing
    /\ LET sum == Allreduce([r \in Ranks |-> The(pending["grad"][r])],
                            hvd.size, The(trainer).average)
       IN  grad_sum' = [r \in Ranks |-> {sum}]
    /\ pending' = [pending EXCEPT !["grad"] = [r \in Ranks |-> Nothing]]
    /\ wpc' = [r \in Ranks |-> "apply"]
    /\ UNCHANGED <<mainVars, loopVars, wconfig, wepoch, wstep, winf, loss, cost,
                   err_stat, summary>>

\* the end of run_step of rank r: the update is applied and the tensors of
\* the step are gone
ApplyGradients(r) ==
    /\ wpc[r] = "apply"
    /\ wstep' = [wstep EXCEPT ![r] = wstep[r] + 1]
    /\ loss' = [loss EXCEPT ![r] = Rat(0, 1)]
    /\ cost' = [cost EXCEPT ![r] = Rat(0, 1)]
    /\ grad_sum' = [grad_sum EXCEPT ![r] = Nothing]
    /\ wpc' = [wpc EXCEPT ![r] = "loop"]
    /\ UNCHANGED <<mainVars, loopVars, wconfig, wepoch, winf, pending, err_stat, summary>>

\* what the ranks of S do once their inferencer number winf[r] has reported
\* (or they run none): the next inferencer, or the end of trigger_epoch
MoreInferencers(r) == Runners(r) /= << >> /\ winf[r] < Len(Inferencers(r))

Advance(S) ==
    /\ wpc' = [r \in Ranks |->
                  IF r \notin S THEN wpc[r]
                  ELSE IF MoreInferencers(r) THEN "after_inference"
                  ELSE "epoch_end"]
    /\ winf' = [r \in Ranks |->
                   IF r \notin S THEN winf[r]
                   ELSE IF MoreInferencers(r) THEN winf[r] + 1 ELSE 0]

\* the epoch loop of rank r: the next epoch starts, or training ends (at most
\* MaxDistEpochs epochs are run). The counters and reports of the epoch are
\* dropped: the next epoch's inference starts from fresh ones.
EndEpoch(r) ==
    /\ wpc[r] = "epoch_end"
    /\ err_stat' = [err_stat EXCEPT ![r] =
                       [n \in InfNames |-> [total |-> 0, count |-> 0]]]
    /\ summary' = [summary EXCEPT ![r] = [n \in InfNames |-> Nothing]]
    /\ IF wepoch[r] < wconfig[r].max_epoch /\ wepoch[r] < MaxDistEpochs
       THEN /\ wepoch' = [wepoch EXCEPT ![r] = wepoch[r] + 1]
            /\ wstep' = [wstep EXCEPT ![r] = 0]
            /\ wpc' = [wpc EXCEPT ![r] = "loop"]
       ELSE /\ wpc' = [wpc EXCEPT ![r] = "trained"]
            /\ UNCHANGED <<wepoch, wstep>>
    /\ UNCHANGED <<mainVars, loopVars, wconfig, winf, loss, cost, pending, grad_sum>>

\* the first inferencer of rank r, from number i on, whose _after_inference
\* calls the allreduce (one past the last inferencer if there is none)
FirstCollective(r, i) ==
    LET infs == Inferencers(r)
        idx == {j \in i..Len(infs) : infs[j].cls = "HorovodClassificationError"}
    IN  IF idx = {} THEN Len(infs) + 1
        ELSE CHOOSE j \in idx : \A k \in idx : j <= k

\* _after_inference of the inferencers of rank r from number i on, with the
\* counters stat, up to the first that waits for its allreduce: a
\* ClassificationError reports the local rate, a HorovodClassificationError
\* hands [tot, cnt] to its allreduce
FinishInferencers(r, i, stat) ==
    LET infs == Inferencers(r)
        j == FirstCollective(r, i)
        locals == {infs[k].name : k \in i..(j - 1)}
    IN  /\ summary' = [summary EXCEPT ![r] =
               [n \in InfNames |->
                   IF n \in locals
                   THEN {ErrorRate(Rat(stat[n].total, 1), Rat(stat[n].count, 1))}
                   ELSE summary[r][n]]]
        /\ IF j <= Len(infs)
           THEN /\ pending' = [pending EXCEPT ![infs[j].name][r] =
                                  {<<stat[infs[j].name].total, stat[infs[j].name].count>>}]
                /\ wpc' = [wpc EXCEPT ![r] = "wait_inference"]
                /\ winf' = [winf EXCEPT ![r] = j]
           ELSE /\ wpc' = [wpc EXCEPT ![r] = "epoch_end"]
                /\ winf' = [winf EXCEPT ![r] = 0]
                /\ UNCHANGED pending

\* trigger_epoch of rank r: its InferenceRunner, if it runs one, feeds the
\* validation images of the rank to the inferencers and calls their
\* _after_inference in turn, up to the first that waits for its allreduce
RunInference(r) ==
    /\ wpc[r] = "loop"
    /\ wstep[r] = wconfig[r].steps_per_epoch
    /\ IF Runners(r) = << >>
       THEN /\ Advance({r})
            /\ UNCHANGED <<err_stat, summary, pending>>
       ELSE \E t \in 1..MaxLocalTotal : \E w1 \in 0..t : \E w5 \in 0..w1 :
               LET stat == [n \in InfNames |->
                               [total |-> t,
                                count |-> IF n = "wrong-top1" THEN w1 ELSE w5]]
               IN  /\ err_stat' = [err_stat EXCEPT ![r] = stat]
                   /\ FinishInferencers(r, 1, stat)
    /\ UNCHANGED <<mainVars, loopVars, wconfig, wepoch, wstep, loss, cost, grad_sum>>

\* rank r returns from the allreduce of inferencer number winf[r] - 1 and goes
\* on with the inferencers that are left
AfterInference(r) ==
    /\ wpc[r] = "after_inference"
    /\ FinishInferencers(r, winf[r], err_stat[r])
    /\ UNCHANGED <<mainVars, loopVars, wconfig, wepoch, wstep, loss, cost, grad_sum,
                   err_stat>>

\* the allreduce of inferencer n, joined by every rank: every rank gets the
\* summed [tot, cnt] and reports cnt / tot
AllreduceError(n) ==
    /\ \A r \in Ranks : pending[n][r] /= Nothing
    /\ LET tot == Allreduce([r \in Ranks |-> Rat(The(pending[n][r])[1], 1)],
                            hvd.size, FALSE)
           cnt == Allreduce([r \in Ranks |-> Rat(The(pending[n][r])[2], 1)],
                            hvd.size, FALSE)
       IN  summary' = [r \in Ranks |-> [summary[r] EXCEPT ![n] = {ErrorRate(tot, cnt)}]]
    /\ pending' = [pending EXCEPT ![n] = [r \in Ranks |-> Nothing]]
    /\ Advance(Ranks)
    /\ UNCHANGED <<mainVars, loopVars, wconfig, wepoch, wstep, loss, cost, grad_sum,
                   err_stat>>

DistNext ==
    \/ \E r \in Ranks : BuildGraph(r)
    \/ AllreduceGrad
    \/ \E r \in Ranks : ApplyGradients(r)
    \/ \E r \in Ranks : RunInference(r)
    \/ \E r \in Ranks : AfterInference(r)
    \/ \E n \in InfNames : AllreduceError(n)
    \/ \E r \in Ranks : EndEpoch(r)

DistSpec == DistInit /\ [][DistNext]_vars

\* every worker process and the collective layer keep running
DistFairSpec == DistSpec /\ WF_vars(DistNext)

----------------------------------------------------------------------------
(* Properties of get_config and __main__ (specification Spec)              *)

\* the step-based warmup callbacks of a configuration
Warmups(c) ==
    {i \in DOMAIN c.callbacks :
        /\ c.callbacks[i].kind = "ScheduledHyperParamSetter"
        /\ c.callbacks[i].step_based}

HasWarmup(c) == Warmups(c) /= {}

\* C1: for every total_batch = B*K > 256 the base learning rate of
\* get_config is exactly 0.1 * total_batch / 256.
C1_ExactLinearScaling ==
    \A c \in config :
        c.total_batch > 256 => c.base_lr = Rat(c.total_batch, 2560)

\* C2: for every total_batch = B*K > 256 get_config adds the warmup
\* schedule: 0.1 at global step 0, rising linearly with the step count to
\* base_lr at step 5 * steps_per_epoch.
C2_WarmupAdded ==
    \A c \in config :
        c.total_batch > 256 =>
            \E i \in DOMAIN c.callbacks :
                c.callbacks[i] =
                    Callback("ScheduledHyperParamSetter",
                             << <<0, Rat(1, 10)>>,
                                <<5 * c.steps_per_epoch, c.base_lr>> >>,
                             "linear", TRUE, <<>>, TRUE)

\* C3: for every total_batch = B*K with 0 < total_batch <= 256 the base
\* learning rate is 0.1 and no warmup callback is added.
C3_SmallBatchRate ==
    \A c \in config :
        c.total_batch <= 256 => c.base_lr = Rat(1, 10) /\ ~HasWarmup(c)

\* C6: a run started with --eval and without --load never builds a Model
\* object or a validation dataflow: it fails before.
C6_EvalFailsBeforeModel ==
    (args.eval /\ args.load = None) => (model = Nothing /\ ~ds)

\* C7: a training run (no --eval) with --load set stops with an assertion
\* failure before the collective layer is initialised, before the logger
\* directory is set and before any model, configuration or trainer is built.
C7_TrainLoadAsserts ==
    (~args.eval /\ args.load /= None) =>
        /\ pc \in {"main", "failed"}
        /\ pc = "failed" => failure = "AssertionError"
        /\ ~hvd.inited
        /\ ~logger_dir
        /\ model = Nothing
        /\ config = Nothing
        /\ trainer = Nothing

C7_Witness ==
    /\ ~args.eval
    /\ args.load /= None
    /\ pc = "failed"
    /\ failure = "AssertionError"

----------------------------------------------------------------------------
(* Properties of the learning-rate schedule (specification TrainSpec)      *)

\* epochs whose trigger_epoch has run
EpochsDone == IF pc = "trained" THEN epoch_num ELSE IF pc = "loop" THEN epoch_num - 1 ELSE 0

\* the last point (a global step) of the warmup schedule of a configuration
WarmupEnd(c) ==
    LET sch == c.callbacks[CHOOSE i \in Warmups(c) : TRUE].schedule
    IN  sch[Len(sch)][1]

\* C4: for any base_lr the learning rate is base_lr * 0.1 once epoch 30 has
\* ended, base_lr * 0.01 once epoch 60 has ended and base_lr * 0.001 once
\* epoch 80 has ended, and keeps that value at every step and epoch until
\* the next of these points; without warmup nothing sets it before epoch 30.
C4_StepDecay ==
    \A c \in config :
        /\ (EpochsDone >= 30 /\ EpochsDone < 60) =>
               learning_rate = RMul(c.base_lr, Rat(1, 10))
        /\ (EpochsDone >= 60 /\ EpochsDone < 80) =>
               learning_rate = RMul(c.base_lr, Rat(1, 100))
        /\ EpochsDone >= 80 =>
               learning_rate = RMul(c.base_lr, Rat(1, 1000))
        /\ (EpochsDone < 30 /\ ~HasWarmup(c)) => learning_rate = Unset

\* a real-mode run with warmup has ended after 90 epochs of steps with the
\* rate of the last decay point
C4_Witness ==
    /\ pc = "trained"
    /\ epoch_num = RealMaxEpoch
    /\ \E c \in config :
           /\ HasWarmup(c)
           /\ c.steps_per_epoch >= 1
           /\ global_step = RealMaxEpoch * c.steps_per_epoch
           /\ learning_rate = RMul(c.base_lr, Rat(1, 1000))

\* the ordering and the state part of C10 for a configuration with warmup
WarmupSeparated(c) ==
    /\ 0 < WarmupEnd(c)
    /\ WarmupEnd(c) < 30 * c.steps_per_epoch
    /\ (pc = "loop" /\ global_step >= WarmupEnd(c) /\ EpochsDone < 30) =>
           learning_rate = c.base_lr

----------------------------------------------------------------------------
(* Properties of the workers (specifications DistSpec and DistFairSpec)    *)

RECURSIVE IntSum(_, _)
IntSum(x, n) == IF n < 0 THEN 0 ELSE IntSum(x, n - 1) + x[n]

\* (sum of the wrong counts) / (sum of the totals) of inferencer n
PooledRate(n) ==
    Rat(IntSum([r \in Ranks |-> err_stat[r][n].count], hvd.size - 1),
        IntSum([r \in Ranks |-> err_stat[r][n].total], hvd.size - 1))

\* the mean of the local rates count / total of inferencer n
MeanLocalRate(n) ==
    RMul(RSum([r \in Ranks |-> Rat(err_stat[r][n].count, err_stat[r][n].total)],
              hvd.size - 1),
         Rat(1, hvd.size))

\* every rank is in, or has finished, the trigger_epoch of the same epoch
AllInTriggerEpoch ==
    \A q \in Ranks :
        wpc[q] \in {"after_inference", "wait_inference", "epoch_end"}

LocalRatesDisagree(n) ==
    \E a, b \in Ranks :
        Rat(err_stat[a][n].count, err_stat[a][n].total)
            /= Rat(err_stat[b][n].count, err_stat[b][n].total)

\* C5 as claimed: in distributed validation the rate every worker reports
\* is (sum of wi) / (sum of ti), the same on every worker, and it differs
\* from the mean of the local rates wi / ti whenever those disagree.
C5_PooledDiffersFromMean ==
    (args.validation = "distributed" /\ AllInTriggerEpoch) =>
        \A n \in InfNames : \A r \in Ranks :
            summary[r][n] /= Nothing =>
                /\ summary[r][n] = {PooledRate(n)}
                /\ LocalRatesDisagree(n) => PooledRate(n) /= MeanLocalRate(n)

\* C5 amended: in distributed validation the rate every worker reports is
\* exactly (sum of wi) / (sum of ti), the same on every worker.
C5_PooledErrorRate ==
    (args.validation = "distributed" /\ AllInTriggerEpoch) =>
        \A n \in InfNames : \A r \in Ranks :
            summary[r][n] /= Nothing => summary[r][n] = {PooledRate(n)}

\* two workers with different local rates have reported the pooled rate,
\* which is not the mean of the local rates
C5_Witness ==
    /\ args.validation = "distributed"
    /\ hvd.size >= 2
    /\ \A r \in Ranks :
           /\ wpc[r] = "epoch_end"
           /\ summary[r]["wrong-top1"] = {PooledRate("wrong-top1")}
    /\ LocalRatesDisagree("wrong-top1")
    /\ PooledRate("wrong-top1") /= MeanLocalRate("wrong-top1")

\* C8: every worker multiplies its loss by 1/K (and leaves it unchanged when
\* K = 1), and the training allreduce sums, so what every worker gets for
\* the per-worker losses c1..cK is their average (c1 + ... + cK) / K.
C8_ScaledLossSum ==
    /\ \A r \in Ranks :
           wpc[r] \in {"wait_grad", "apply"} =>
               cost[r] = IF hvd.size = 1 THEN loss[r]
                         ELSE RMul(loss[r], Rat(1, hvd.size))
    /\ (\A r \in Ranks : wpc[r] = "apply") =>
           \A r \in Ranks :
               grad_sum[r] = {RMul(RSum(loss, hvd.size - 1), Rat(1, hvd.size))}

\* two workers with losses 1 and 2 have got 3/2 from the training allreduce
C8_Witness ==
    /\ hvd.size = 2
    /\ loss[0] = Rat(1, 1)
    /\ loss[1] = Rat(2, 1)
    /\ \A r \in Ranks : wpc[r] = "apply" /\ grad_sum[r] = {Rat(3, 2)}

\* the inferencer classes a runner of rank q uses, in order
RunnerClasses(q) == [i \in DOMAIN Inferencers(q) |-> Inferencers(q)[i].cls]
RunnerNames(q) == [i \in DOMAIN Inferencers(q) |-> Inferencers(q)[i].name]

\* some rank is blocked in the allreduce of an inferencer
Blocked == \E r \in Ranks : wpc[r] = "wait_inference"

\* which ranks run a validation runner, and with which counters
RunnersInstalled ==
    /\ args.validation = "master" =>
           \A q \in Ranks :
               /\ (Runners(q) /= << >>) <=> (q = 0)
               /\ Runners(q) /= << >> =>
                      RunnerClasses(q) = <<"ClassificationError", "ClassificationError">>
    /\ args.validation = "distributed" =>
           \A q \in Ranks :
               /\ Len(Runners(q)) = 1
               /\ RunnerClasses(q) = <<"HorovodClassificationError",
                                       "HorovodClassificationError">>
               /\ RunnerNames(q) = <<"wrong-top1", "wrong-top5">>

\* a reduction some rank has started is one every rank has joined or is
\* still to join in this epoch
JoinedByAll ==
    \A n \in InfNames :
        (\E r \in Ranks : pending[n][r] /= Nothing) =>
            /\ args.validation = "distributed"
            /\ \A q \in Ranks :
                   \/ pending[n][q] /= Nothing
                   \/ /\ wpc[q] \in {"apply", "loop", "after_inference"}
                      /\ summary[q][n] = Nothing

\* C9: an error-statistics reduction is joined by all K workers or started
\* by none. In 'master' mode only rank 0 runs the validation runner, with
\* the local counters; in 'distributed' mode every rank runs it with the
\* allreduce-based counters in the same order (top-1, then top-5); and
\* whenever workers are blocked in such a reduction, they all leave it.
C9_ReductionsJoinedByAll ==
    /\ [](RunnersInstalled /\ JoinedByAll)
    /\ Blocked ~> ~Blocked

\* every one of several workers has passed both reductions of the epoch
C9_Witness ==
    /\ args.validation = "distributed"
    /\ hvd.size >= 2
    /\ \A r \in Ranks :
           /\ wpc[r] = "epoch_end"
           /\ summary[r]["wrong-top1"] /= Nothing
           /\ summary[r]["wrong-top5"] /= Nothing

====
